---- MODULE Spec2Model ----
(***************************************************************************)
(* A model of utils/mcp_client.py: the two MCP transports (McpSseClient,   *)
(* McpStreamableHttpClient) and the multi-server registry (McpClients).    *)
(*                                                                         *)
(* Spec          one transport instance, of the kind init_client selects,  *)
(*               driven by one caller thread; for the event-stream kind    *)
(*               the listener thread runs in parallel.                     *)
(* SpecRegistry  a constructed McpClients over NServers transports whose   *)
(*               list_tools/call_tool/close outcomes are drawn per call.   *)
(* SpecConstruct McpClients.__init__ over NServers servers, and then the   *)
(*               registry it produced.                                     *)
(* SpecWait      one event-stream transport with one caller thread and a   *)
(*               server that answers the requests POSTed, both threads     *)
(*               scheduled fairly.                                         *)
(* SpecTwo       the same transport with a second caller thread.           *)
(***************************************************************************)
EXTENDS Integers, Sequences, FiniteSets, TLC

\* Python's None, and the mark of a key that a dict does not hold.
None == "None"
NoKey == "<absent>"

(***************************************************************************)
(* Bounds.                                                                 *)
(***************************************************************************)
\* events the listener thread reads from the stream
MaxEvents == 3
\* protocol operations the caller thread starts on the transport
MaxCalls == 2
\* servers of the configuration, that is transports the registry manages
NServers == 2
\* methods called on the registry
MaxRegistryCalls == 2
\* events framed in one streamable response body
MaxBodyEvents == 2

(***************************************************************************)
(* URLs: urlparse's (scheme, netloc, path) and urljoin.                    *)
(***************************************************************************)
ConnUrl == [scheme |-> "http", netloc |-> "h", path |-> "/sse"]

\* The payloads an "endpoint" event may carry: a relative reference, an
\* absolute URL of the same origin, one of another host, one of another scheme.
EndpointData ==
    { [scheme |-> "",      netloc |-> "",     path |-> "/messages"],
      [scheme |-> "http",  netloc |-> "h",    path |-> "/messages"],
      [scheme |-> "",      netloc |-> "evil", path |-> "/messages"],
      [scheme |-> "https", netloc |-> "h",    path |-> "/messages"] }

urljoin(base, ref) ==
    IF ref.scheme /= "" /\ ref.scheme /= base.scheme THEN ref
    ELSE IF ref.netloc /= ""
         THEN [scheme |-> base.scheme, netloc |-> ref.netloc, path |-> ref.path]
         ELSE [scheme |-> base.scheme, netloc |-> base.netloc,
               path |-> IF ref.path = "" THEN base.path ELSE ref.path]

\* lines 88-91: the origin test of the "endpoint" case
OriginMismatch(url, endpoint) ==
    url.netloc /= endpoint.netloc \/ url.scheme /= endpoint.scheme

(***************************************************************************)
(* Optional values: a dict key that may be missing, an optional header.    *)
(* Absent is the missing value, Some(x) the present one.                   *)
(***************************************************************************)
Absent == {}
Some(x) == {x}
Get(o) == CHOOSE x \in o : TRUE

(***************************************************************************)
(* Message envelopes, decoded (a dict).  id is the optional "id" key,      *)
(* error tells whether the "error" key is present, result is the "result"  *)
(* object with its optional "tools" and "content" arrays.                  *)
(***************************************************************************)
NoResult == [present |-> FALSE, tools |-> Absent, content |-> Absent]
FullResult == [present |-> TRUE, tools |-> Some(<< "t" >>), content |-> Some(<< "c" >>)]

Envelope(id, error, result) == [id |-> id, error |-> error, result |-> result]

\* Python's {}: the dict with no key
EmptyDict == Envelope(Absent, FALSE, NoResult)

\* request ids of the event-stream transport (uuid4().hex, one per request)
Ids == 1 .. MaxCalls

\* The "message" events a server may put on the event stream: an error
\* response, a result, a response with neither, each for any id or none.
StreamBodies == { << TRUE, NoResult >>, << FALSE, NoResult >>, << FALSE, FullResult >> }
StreamMessages ==
    { Envelope(i, b[1], b[2]) : i \in { Absent } \cup { Some(k) : k \in Ids },
                                b \in StreamBodies }

\* The text of an event's data: well-formed JSON of a document, or not.
Payload(wf, doc) == [wf |-> wf, doc |-> doc]
Malformed == Payload(FALSE, EmptyDict)

\* The events of the stream the listener iterates (sse.event, sse.data).
StreamEvents ==
    { [event |-> "endpoint", ref |-> r, data |-> Malformed] : r \in EndpointData }
    \cup { [event |-> "message", ref |-> CHOOSE r \in EndpointData : TRUE, data |-> Payload(TRUE, m)] :
             m \in StreamMessages }
    \cup { [event |-> "message", ref |-> CHOOSE r \in EndpointData : TRUE, data |-> Malformed] }
    \cup { [event |-> "ping", ref |-> CHOOSE r \in EndpointData : TRUE, data |-> Malformed] }

\* None as the value of endpoint_url (falsy, like the empty string)
NoUrl == [scheme |-> "", netloc |-> "", path |-> ""]

(***************************************************************************)
(* State.                                                                  *)
(***************************************************************************)
VARIABLES
    transport,          \* config["transport"]: the kind init_client builds
    \* McpSseClient
    endpoint_url,       \* NoUrl until an "endpoint" event is read
    message_dict,       \* the pending-response table: id -> message
    response_ready,     \* Event
    should_stop,        \* Event
    _connected,         \* Event
    _error_event,       \* Event
    _thread_exception,  \* None or the exception the listener caught
    lpc,                \* the listener thread's position
    nev,                \* events the listener has read
    first_endpoint,     \* history: endpoint_url as the first "endpoint" event set it
    \* the caller thread
    cpc,                \* its position
    op,                 \* the operation in progress
    phase,              \* 1: the request, 2: initialize's notification
    data,               \* the envelope passed to send_message
    rets,               \* history: what send_message returned within this operation
    outcome,            \* how the last operation ended
    ncalls,             \* operations started
    post_url,           \* history: the url of the last POST of send_message
    issued,             \* history: the ids of the requests POSTed, in order
    \* McpStreamableHttpClient
    session_id,         \* None until a response carries the mcp-session-id header
    http_response,      \* the response to the POST of the send_message in progress
    http_sres,          \* what that send_message is about to return or raise
    sent_sid,           \* history: the Mcp-Session-Id header of the last request
    first_sid,          \* history: status and mcp-session-id header of the first response
    last_sid,           \* history: that header in the latest successful response that had one
    \* McpClients
    _tools,             \* the catalog cache, a dict: server name -> catalog
    rpc,                \* the position of the registry's caller
    rop,                \* the registry method in progress
    tool_name,          \* execute_tool's argument
    idx,                \* the position of the loop over self._clients
    all_tools,          \* fetch_tools' local list
    rresult,            \* how the last registry method ended
    calls,              \* history: the transport calls of this registry method
    fetched,            \* history: the catalogs list_tools returned to this method
    tools_before,       \* history: _tools when this registry method began
    nrcalls,            \* registry methods started
    \* a second caller thread on the same McpSseClient
    cpc2,               \* its position in list_tools and send_message
    outcome2            \* how its list_tools ended

regVars == << _tools, rpc, rop, tool_name, idx, all_tools, rresult, calls, fetched, tools_before,
             nrcalls >>
\* what no step of a transport changes
secondVars == << cpc2, outcome2 >>
fixedVars == << transport, regVars, secondVars >>
sseVars == << endpoint_url, message_dict, response_ready, should_stop, _connected,
              _error_event, _thread_exception, lpc, nev, first_endpoint >>
httpVars == << session_id, http_response, http_sres, sent_sid, first_sid, last_sid >>
callerVars == << cpc, op, phase, data, rets, outcome, ncalls, post_url, issued, httpVars, fixedVars >>

(***************************************************************************)
(* McpSseClient._listen_messages: the listener thread.                     *)
(*   open    connect_sse and raise_for_status          (lines 70-77)       *)
(*   iter    iter_sse: waiting for the next event      (line 79)           *)
(*   ep_set  endpoint_url assigned, before line 87                         *)
(*   ep_chk  _connected set, before the origin test    (lines 88-94)       *)
(*   msg_set message stored, before line 99                                *)
(*   x_err   _thread_exception assigned, before line 104                   *)
(*   x_conn  _error_event set, before line 105                             *)
(*   done    the thread function has returned (is_alive() is False)        *)
(***************************************************************************)
\* except Exception as e: self._thread_exception = e
Catch(e) ==
    /\ _thread_exception' = e
    /\ lpc' = "x_err"

ListenOpen ==
    /\ transport = "sse"
    /\ lpc = "open"
    /\ \/ /\ lpc' = "iter"
          /\ UNCHANGED _thread_exception
       \/ Catch("HTTPStatusError")
       \/ Catch("ConnectError")
    /\ UNCHANGED << endpoint_url, message_dict, response_ready, should_stop, _connected,
                    _error_event, nev, first_endpoint >>
    /\ UNCHANGED callerVars

\* message_dict[message["id"]] = message
DictSet(d, k, v) == [x \in DOMAIN d \cup {k} |-> IF x = k THEN v ELSE d[x]]

\* line 98
StoreMessage(d, message) == DictSet(d, Get(message.id), message)

\* One event, of those the server may send now, read by iter_sse and
\* dispatched (lines 79-101).
ListenEventFrom(events) ==
    /\ transport = "sse"
    /\ lpc = "iter"
    /\ nev < MaxEvents
    /\ nev' = nev + 1
    /\ \E sse \in events :
         IF should_stop
         THEN /\ lpc' = "done"
              /\ UNCHANGED << endpoint_url, message_dict, _thread_exception, first_endpoint >>
         ELSE CASE sse.event = "endpoint" ->
                     /\ endpoint_url' = urljoin(ConnUrl, sse.ref)
                     /\ first_endpoint' = IF first_endpoint = NoUrl
                                          THEN urljoin(ConnUrl, sse.ref) ELSE first_endpoint
                     /\ lpc' = "ep_set"
                     /\ UNCHANGED << message_dict, _thread_exception >>
                [] sse.event = "message" ->
                     IF ~sse.data.wf
                     THEN /\ Catch("JSONDecodeError")
                          /\ UNCHANGED << endpoint_url, message_dict, first_endpoint >>
                     ELSE IF sse.data.doc.id = Absent
                     THEN /\ Catch("KeyError")
                          /\ UNCHANGED << endpoint_url, message_dict, first_endpoint >>
                     ELSE /\ message_dict' = StoreMessage(message_dict, sse.data.doc)
                          /\ lpc' = "msg_set"
                          /\ UNCHANGED << endpoint_url, _thread_exception, first_endpoint >>
                [] OTHER ->
                     /\ lpc' = "iter"
                     /\ UNCHANGED << endpoint_url, message_dict, _thread_exception,
                                     first_endpoint >>
    /\ UNCHANGED << response_ready, should_stop, _connected, _error_event >>
    /\ UNCHANGED callerVars

\* the server may send any event at any time
ListenEvent == ListenEventFrom(StreamEvents)

\* The stream ends (the server closes it): the for loop and the thread finish.
ListenEof ==
    /\ transport = "sse"
    /\ lpc = "iter"
    /\ lpc' = "done"
    /\ UNCHANGED << endpoint_url, message_dict, response_ready, should_stop, _connected,
                    _error_event, _thread_exception, nev, first_endpoint >>
    /\ UNCHANGED callerVars

\* Reading the stream raises (read timeout, connection reset, client closed).
ListenReadError ==
    /\ transport = "sse"
    /\ lpc = "iter"
    /\ Catch("ReadError")
    /\ UNCHANGED << endpoint_url, message_dict, response_ready, should_stop, _connected,
                    _error_event, nev, first_endpoint >>
    /\ UNCHANGED callerVars

\* line 87
ListenConnected ==
    /\ transport = "sse"
    /\ lpc = "ep_set"
    /\ _connected' = TRUE
    /\ lpc' = "ep_chk"
    /\ UNCHANGED << endpoint_url, message_dict, response_ready, should_stop,
                    _error_event, _thread_exception, nev, first_endpoint >>
    /\ UNCHANGED callerVars

\* lines 88-94
ListenOriginCheck ==
    /\ transport = "sse"
    /\ lpc = "ep_chk"
    /\ IF OriginMismatch(ConnUrl, endpoint_url)
       THEN Catch("ValueError")
       ELSE /\ lpc' = "iter"
            /\ UNCHANGED _thread_exception
    /\ UNCHANGED << endpoint_url, message_dict, response_ready, should_stop, _connected,
                    _error_event, nev, first_endpoint >>
    /\ UNCHANGED callerVars

Signal_Lost(flag) == flag

\* Event.set(): the flag afterwards
Signal(flag) == TRUE

\* line 99
ListenSignal ==
    /\ transport = "sse"
    /\ lpc = "msg_set"
    /\ response_ready' = Signal(response_ready)
    /\ lpc' = "iter"
    /\ UNCHANGED << endpoint_url, message_dict, should_stop, _connected,
                    _error_event, _thread_exception, nev, first_endpoint >>
    /\ UNCHANGED callerVars

\* line 104
ListenErrorEvent ==
    /\ transport = "sse"
    /\ lpc = "x_err"
    /\ _error_event' = TRUE
    /\ lpc' = "x_conn"
    /\ UNCHANGED << endpoint_url, message_dict, response_ready, should_stop, _connected,
                    _thread_exception, nev, first_endpoint >>
    /\ UNCHANGED callerVars

\* line 105
ListenErrorConnected ==
    /\ transport = "sse"
    /\ lpc = "x_conn"
    /\ _connected' = TRUE
    /\ lpc' = "done"
    /\ UNCHANGED << endpoint_url, message_dict, response_ready, should_stop,
                    _error_event, _thread_exception, nev, first_endpoint >>
    /\ UNCHANGED callerVars

Listener ==
    \/ ListenOpen
    \/ ListenEvent
    \/ ListenEof
    \/ ListenReadError
    \/ ListenConnected
    \/ ListenOriginCheck
    \/ ListenSignal
    \/ ListenErrorEvent
    \/ ListenErrorConnected

(***************************************************************************)
(* The protocol sequencing shared by both transports: initialize,          *)
(* list_tools and call_tool build a request, pass it to send_message and   *)
(* inspect the decoded response.                                           *)
(***************************************************************************)
Operations == { "initialize", "list_tools", "call_tool" }

Request(id, method) == [id |-> id, method |-> method]

Method(o) ==
    CASE o = "initialize" -> "initialize"
      [] o = "list_tools" -> "tools/list"
      [] o = "call_tool" -> "tools/call"

\* notify_data: no "id" key
Notification == Request(Absent, "notifications/initialized")

\* how an operation ended: it returned val, or raised err
NoOutcome == [kind |-> "none", val |-> << >>, err |-> ""]
Return(v) == [kind |-> "return", val |-> v, err |-> ""]
Raise(e) == [kind |-> "raise", val |-> << >>, err |-> e]

\* what send_message did: it returned msg (Absent is None), or raised err
Returned(m) == [raised |-> FALSE, msg |-> m, err |-> ""]
Raised(e) == [raised |-> TRUE, msg |-> Absent, err |-> e]

HasError_Never(response) == FALSE

\* "error" in response
HasError(response) == response.error

\* response.get("result", {}).get("tools", [])
ToolsOf(response) ==
    IF response.result.tools = Absent THEN << >> ELSE Get(response.result.tools)

\* response.get("result", {}).get("content", [])
ContentOf(response) ==
    IF response.result.content = Absent THEN << >> ELSE Get(response.result.content)

\* The rest of an operation once send_message has returned or raised:
\* [next |-> the request still to send, or Absent; outcome |-> as above].
AfterSend(o, ph, sres) ==
    IF sres.raised THEN [next |-> Absent, outcome |-> Raise(sres.err)]
    ELSE IF sres.msg = Absent
    THEN [next |-> Absent, outcome |-> Raise("TypeError")]
    ELSE LET response == Get(sres.msg) IN
         CASE o = "initialize" /\ ph = 1 ->
                IF HasError(response)
                THEN [next |-> Absent, outcome |-> Raise("MCP Server initialize error")]
                ELSE [next |-> Some(Notification), outcome |-> NoOutcome]
           [] o = "initialize" /\ ph = 2 ->
                IF HasError(response)
                THEN [next |-> Absent,
                      outcome |-> Raise("MCP Server notifications/initialized error")]
                ELSE [next |-> Absent, outcome |-> Return(<< >>)]
           [] o = "list_tools" ->
                IF HasError(response)
                THEN [next |-> Absent, outcome |-> Raise("MCP Server tools/list error")]
                ELSE [next |-> Absent, outcome |-> Return(ToolsOf(response))]
           [] o = "call_tool" ->
                IF HasError(response)
                THEN [next |-> Absent, outcome |-> Raise("MCP Server tools/call error")]
                ELSE [next |-> Absent, outcome |-> Return(ContentOf(response))]

\* send_message has ended with sres: the caller goes on with its operation.
Complete(sres) ==
    LET a == AfterSend(op, phase, sres) IN
    /\ rets' = IF sres.raised THEN rets ELSE Append(rets, sres.msg)
    /\ outcome' = a.outcome
    /\ IF a.next = Absent
       THEN /\ cpc' = "idle"
            /\ UNCHANGED << phase, data >>
       ELSE /\ cpc' = "send"
            /\ phase' = 2
            /\ data' = Get(a.next)

\* the "id" of the request an operation builds: uuid4().hex, a fresh value,
\* for the event-stream transport; the literals 0, 1, 2 for the streamable one
RequestId(kind, o, n) ==
    IF kind = "sse" THEN n
    ELSE CASE o = "initialize" -> 0
           [] o = "list_tools" -> 1
           [] o = "call_tool" -> 2

\* The caller starts initialize(), list_tools() or call_tool(name, args).
BeginOp ==
    /\ cpc = "idle"
    /\ ncalls < MaxCalls
    /\ \E o \in Operations :
         /\ op' = o
         /\ data' = Request(Some(RequestId(transport, o, ncalls + 1)), Method(o))
    /\ phase' = 1
    /\ rets' = << >>
    /\ outcome' = NoOutcome
    /\ ncalls' = ncalls + 1
    /\ cpc' = "send"
    /\ UNCHANGED << post_url, issued, httpVars, fixedVars >>
    /\ UNCHANGED sseVars

\* the ids POSTed so far, once the envelope d has been POSTed as well
Issue(ids, d) == IF d.id = Absent THEN ids ELSE Append(ids, Get(d.id))

(***************************************************************************)
(* McpSseClient.connect, run by __init__ on the constructing thread.       *)
(*   connect  before the listener thread is started    (lines 138-139)     *)
(*   c_err    the test of _error_event                 (lines 141-146)     *)
(*   c_wait   _connected.wait(timeout=0.1)             (lines 147-148)     *)
(*   c_alive  the test of is_alive()                   (lines 149-150)     *)
(*   failed   the constructor raised                                       *)
(*   idle     the constructor returned; no operation in progress           *)
(***************************************************************************)
ConnectStart ==
    /\ transport = "sse"
    /\ cpc = "connect"
    /\ lpc = "unstarted"
    /\ lpc' = "open"
    /\ cpc' = "c_err"
    /\ UNCHANGED << endpoint_url, message_dict, response_ready, should_stop, _connected,
                    _error_event, _thread_exception, nev, first_endpoint >>
    /\ UNCHANGED << op, phase, data, rets, outcome, ncalls, post_url, issued, httpVars, fixedVars >>

\* lines 142-146: what connect raises for the exception the listener recorded
ConnectError(e) == IF e = "HTTPStatusError" THEN "ConnectionError" ELSE e

ConnectCheckError ==
    /\ transport = "sse"
    /\ cpc = "c_err"
    /\ IF _error_event
       THEN /\ cpc' = "failed"
            /\ outcome' = Raise(ConnectError(_thread_exception))
       ELSE /\ cpc' = "c_wait"
            /\ UNCHANGED outcome
    /\ UNCHANGED << op, phase, data, rets, ncalls, post_url, issued, httpVars, fixedVars >>
    /\ UNCHANGED sseVars

\* _connected.wait(timeout=0.1): True once the flag is set, False on timeout
ConnectWait ==
    /\ transport = "sse"
    /\ cpc = "c_wait"
    /\ IF _connected
       THEN /\ cpc' = "idle"
            /\ outcome' = Return(<< >>)
       ELSE /\ cpc' = "c_alive"
            /\ UNCHANGED outcome
    /\ UNCHANGED << op, phase, data, rets, ncalls, post_url, issued, httpVars, fixedVars >>
    /\ UNCHANGED sseVars

ConnectAlive ==
    /\ transport = "sse"
    /\ cpc = "c_alive"
    /\ IF lpc = "done"
       THEN /\ cpc' = "failed"
            /\ outcome' = Raise("ConnectionError: listener thread died")
       ELSE /\ cpc' = "c_err"
            /\ UNCHANGED outcome
    /\ UNCHANGED << op, phase, data, rets, ncalls, post_url, issued, httpVars, fixedVars >>
    /\ UNCHANGED sseVars

\* McpSseClient.__init__ has returned to its caller without raising
Constructed ==
    /\ transport = "sse"
    /\ cpc \notin { "connect", "c_err", "c_wait", "c_alive", "failed" }

(***************************************************************************)
(* McpSseClient.send_message, on the caller thread.                        *)
(*   send    the test of endpoint_url                  (lines 108-112)     *)
(*   s_post  the POST and its status                   (lines 114-125,135) *)
(*   s_wait  response_ready.wait()                     (line 128)          *)
(*   s_clear response_ready.clear()                    (line 129)          *)
(*   s_in    message_id in self.message_dict           (line 130)          *)
(*   s_pop   pop and return                            (lines 132-134)     *)
(***************************************************************************)
SseSendCheck ==
    /\ transport = "sse"
    /\ cpc = "send"
    /\ IF endpoint_url = NoUrl
       THEN Complete(Raised(IF _thread_exception /= None THEN "ConnectionError"
                                                        ELSE "RuntimeError"))
       ELSE /\ cpc' = "s_post"
            /\ UNCHANGED << phase, data, rets, outcome >>
    /\ UNCHANGED << op, ncalls, post_url, issued, httpVars, fixedVars >>
    /\ UNCHANGED sseVars

SseSendPost ==
    /\ transport = "sse"
    /\ cpc = "s_post"
    /\ post_url' = endpoint_url
    /\ issued' = Issue(issued, data)
    /\ \/ Complete(Raised("HTTPStatusError"))
       \/ IF data.id /= Absent
          THEN /\ cpc' = "s_wait"
               /\ UNCHANGED << phase, data, rets, outcome >>
          ELSE Complete(Returned(Some(EmptyDict)))
    /\ UNCHANGED << op, ncalls, httpVars, fixedVars >>
    /\ UNCHANGED sseVars

Wait_Spurious(flag) == TRUE

\* Event.wait() without timeout: it returns once the flag is set
Wait(flag) == flag

SseWait ==
    /\ transport = "sse"
    /\ cpc = "s_wait"
    /\ Wait(response_ready)
    /\ cpc' = "s_clear"
    /\ UNCHANGED << op, phase, data, rets, outcome, ncalls, post_url, issued, httpVars, fixedVars >>
    /\ UNCHANGED sseVars

SseClear ==
    /\ transport = "sse"
    /\ cpc = "s_clear"
    /\ response_ready' = FALSE
    /\ cpc' = "s_in"
    /\ UNCHANGED << op, phase, data, rets, outcome, ncalls, post_url, issued, httpVars, fixedVars >>
    /\ UNCHANGED << endpoint_url, message_dict, should_stop, _connected,
                    _error_event, _thread_exception, lpc, nev, first_endpoint >>

InTable_Always(d, k) == TRUE

\* message_id in self.message_dict
InTable(d, k) == k \in DOMAIN d

SseLookup ==
    /\ transport = "sse"
    /\ cpc = "s_in"
    /\ cpc' = IF InTable(message_dict, Get(data.id)) THEN "s_pop" ELSE "s_wait"
    /\ UNCHANGED << op, phase, data, rets, outcome, ncalls, post_url, issued, httpVars, fixedVars >>
    /\ UNCHANGED sseVars

\* self.message_dict.pop(message_id, None): the table without the key, and
\* the value it held (Absent, that is None, when it held none)
PopTable_Keep(d, k) == d

PopTable(d, k) == [x \in DOMAIN d \ {k} |-> d[x]]
PopValue(d, k) == IF k \in DOMAIN d THEN Some(d[k]) ELSE Absent

SsePop ==
    /\ transport = "sse"
    /\ cpc = "s_pop"
    /\ message_dict' = PopTable(message_dict, Get(data.id))
    /\ Complete(Returned(PopValue(message_dict, Get(data.id))))
    /\ UNCHANGED << op, ncalls, post_url, issued, httpVars, fixedVars >>
    /\ UNCHANGED << endpoint_url, response_ready, should_stop, _connected,
                    _error_event, _thread_exception, lpc, nev, first_endpoint >>

(***************************************************************************)
(* McpSseClient.close.                                                     *)
(*   closing  should_stop set and the client closed, before the join       *)
(*   closed   close returned                                               *)
(***************************************************************************)
SseClose ==
    /\ transport = "sse"
    /\ cpc = "idle"
    /\ should_stop' = TRUE
    /\ cpc' = "closing"
    /\ UNCHANGED << op, phase, data, rets, outcome, ncalls, post_url, issued, httpVars, fixedVars >>
    /\ UNCHANGED << endpoint_url, message_dict, response_ready, _connected,
                    _error_event, _thread_exception, lpc, nev, first_endpoint >>

\* join(timeout=10): the thread has finished, or the timeout passes
SseJoin ==
    /\ transport = "sse"
    /\ cpc = "closing"
    /\ cpc' = "closed"
    /\ UNCHANGED << op, phase, data, rets, outcome, ncalls, post_url, issued, httpVars, fixedVars >>
    /\ UNCHANGED sseVars

SseCaller ==
    \/ ConnectStart
    \/ ConnectCheckError
    \/ ConnectWait
    \/ ConnectAlive
    \/ SseSendCheck
    \/ SseSendPost
    \/ SseWait
    \/ SseClear
    \/ SseLookup
    \/ SsePop
    \/ SseClose
    \/ SseJoin

(***************************************************************************)
(* McpStreamableHttpClient.send_message: one POST and its response.        *)
(***************************************************************************)
\* values of the mcp-session-id response header
SessionHeaders == { Absent, Some(""), Some("a"), Some("b") }

\* values of the content-type response header ("None" when it is missing)
ContentTypes == { "text/event-stream", "application/json; charset=utf-8", "text/plain", "None" }

\* "text/event-stream" in content_type
IsEventStream(content_type) == content_type \in { "text/event-stream" }

IsJson_Any(content_type) == TRUE

\* "application/json" in content_type
IsJson(content_type) == content_type \in { "application/json; charset=utf-8" }

\* documents a streamable server answers with
HttpDocs == { Envelope(Absent, TRUE, NoResult), Envelope(Absent, FALSE, FullResult) }

HttpPayloads == { Payload(TRUE, d) : d \in HttpDocs } \cup { Malformed }

\* events framed in an event-stream body
BodyEvents == { [event |-> "message", data |-> q] : q \in HttpPayloads }
              \cup { [event |-> "ping", data |-> Malformed] }

BodyEventSeqs == UNION { [1 .. n -> BodyEvents] : n \in 0 .. MaxBodyEvents }

\* response.content: empty, the text of an event stream, or other text
\* (JSON or not)
NoContent == [kind |-> "empty", events |-> << >>, json |-> Malformed]
Contents ==
    { NoContent }
    \cup { [kind |-> "sse", events |-> es, json |-> Malformed] : es \in BodyEventSeqs }
    \cup { [kind |-> "text", events |-> << >>, json |-> q] : q \in HttpPayloads }

\* The responses a server may give.  Of an unsuccessful one only the status
\* and the headers are read.  A successful one typed as an event stream has
\* no body or frames events; one typed otherwise has no body or a text,
\* which is a JSON document or is not (the text of an event stream is not).
HttpResponses ==
    [is_success : { FALSE }, sid : SessionHeaders, content_type : { "None" },
     content : { NoContent }]
    \cup [is_success : { TRUE }, sid : SessionHeaders,
          content_type : { t \in ContentTypes : IsEventStream(t) },
          content : { c \in Contents : c.kind \in { "empty", "sse" } }]
    \cup [is_success : { TRUE }, sid : SessionHeaders,
          content_type : { t \in ContentTypes : ~IsEventStream(t) },
          content : { c \in Contents : c.kind \in { "empty", "text" } }]

\* lines 238-239: the Mcp-Session-Id request header
SessionHeader(sid) == IF sid /= None /\ sid /= "" THEN Some(sid) ELSE Absent

CaptureSession_FirstWins(sid, response) ==
    IF sid = None /\ response.sid /= Absent THEN Get(response.sid) ELSE sid

\* lines 252-253
CaptureSession(sid, response) ==
    IF response.sid /= Absent THEN Get(response.sid) ELSE sid

RECURSIVE EventLoop_First(_, _)
EventLoop_First(events, message) ==
    IF events = << >> THEN Returned(Some(message))
    ELSE LET sse == Head(events) IN
         IF sse.event /= "message" THEN Raised("Unknown Server-Sent Event")
         ELSE IF ~sse.data.wf THEN Raised("JSONDecodeError")
         ELSE EventLoop_First(Tail(events), IF message = EmptyDict THEN sse.data.doc
                                                                   ELSE message)

\* lines 260-263: the loop over the framed events, message being the
\* payload of the last event so far
RECURSIVE EventLoop(_, _)
EventLoop(events, message) ==
    IF events = << >> THEN Returned(Some(message))
    ELSE LET sse == Head(events) IN
         IF sse.event /= "message" THEN Raised("Unknown Server-Sent Event")
         ELSE IF ~sse.data.wf THEN Raised("JSONDecodeError")
         ELSE EventLoop(Tail(events), sse.data.doc)

\* lines 255-269: the decoding of the body
Decode(response) ==
    IF response.content.kind = "empty" THEN Returned(Some(EmptyDict))
    ELSE IF IsEventStream(response.content_type)
    THEN EventLoop(response.content.events, EmptyDict)
    ELSE IF IsJson(response.content_type)
    THEN IF ~response.content.json.wf THEN Raised("JSONDecodeError")
         ELSE Returned(Some(response.content.json.doc))
    ELSE Raised("Unsupported Content-Type")

\* lines 249-269: what send_message does with the response
Receive(sid, response) ==
    IF ~response.is_success
    THEN [session_id |-> sid, sres |-> Raised("ValueError")]
    ELSE [session_id |-> CaptureSession(sid, response), sres |-> Decode(response)]

\* the value of http_response while no send_message is in progress
NoResponse ==
    [is_success |-> FALSE, sid |-> Absent, content_type |-> "None", content |-> NoContent]

\* lines 237-268: the POST, with the session header if one is known, and
\* the handling of the response, which may be any
HttpPost ==
    /\ transport = "streamable_http"
    /\ cpc = "send"
    /\ sent_sid' = SessionHeader(session_id)
    /\ \E response \in HttpResponses :
         LET r == Receive(session_id, response) IN
         /\ http_response' = response
         /\ session_id' = r.session_id
         /\ http_sres' = r.sres
         /\ first_sid' = IF first_sid = Absent
                         THEN Some([is_success |-> response.is_success, sid |-> response.sid])
                         ELSE first_sid
         /\ last_sid' = IF response.is_success /\ response.sid /= Absent
                        THEN response.sid ELSE last_sid
    /\ issued' = Issue(issued, data)
    /\ cpc' = "h_ret"
    /\ UNCHANGED << op, phase, data, rets, outcome, ncalls, post_url, fixedVars >>
    /\ UNCHANGED sseVars

\* line 269, or the exception leaving send_message
HttpReturn ==
    /\ transport = "streamable_http"
    /\ cpc = "h_ret"
    /\ Complete(http_sres)
    /\ http_response' = NoResponse
    /\ http_sres' = Raised("")
    /\ UNCHANGED << session_id, sent_sid, first_sid, last_sid >>
    /\ UNCHANGED << op, ncalls, post_url, issued, fixedVars >>
    /\ UNCHANGED sseVars

(***************************************************************************)
(* One transport instance and its caller.                                  *)
(***************************************************************************)
\* init_client: "sse" unless the configuration names another transport
Transports == { "sse", "streamable_http" }

TransportInit ==
    /\ transport \in Transports
    /\ endpoint_url = NoUrl
    /\ message_dict = << >>
    /\ response_ready = FALSE
    /\ should_stop = FALSE
    /\ _connected = FALSE
    /\ _error_event = FALSE
    /\ _thread_exception = None
    /\ lpc = "unstarted"
    /\ nev = 0
    /\ first_endpoint = NoUrl
    /\ cpc = IF transport = "sse" THEN "connect" ELSE "idle"
    /\ op = "none"
    /\ phase = 1
    /\ data = Notification
    /\ rets = << >>
    /\ outcome = NoOutcome
    /\ ncalls = 0
    /\ post_url = NoUrl
    /\ issued = << >>
    /\ session_id = None
    /\ http_response = NoResponse
    /\ http_sres = Raised("")
    /\ sent_sid = Absent
    /\ first_sid = Absent
    /\ last_sid = Absent
    /\ cpc2 = "idle"
    /\ outcome2 = NoOutcome



(***************************************************************************)
(* McpClients: the registry over NServers transports, named 1 .. NServers  *)
(* in the order of the configuration (the iteration order of _clients).    *)
(* What a transport's list_tools, call_tool or close does is drawn at the  *)
(* call: it returns a value or raises.                                     *)
(***************************************************************************)
Servers == 1 .. NServers

\* tool descriptors; a descriptor may lack the "name" key
Tool(name) == [name |-> name]
Nameless == Tool(NoKey)

\* the catalogs a server's list_tools may return
Catalogs ==
    { << >>, << Tool("t1") >>, << Tool("t2") >>, << Tool("t1"), Tool("t2") >>,
      << Nameless >>, << Tool("t1"), Nameless >> }

\* the names execute_tool is called with
ToolNames == { "t1", "t2", "missing-tool" }

\* what call_tool may return: the content list, or a dict, with or without
\* the "progress" and "total" keys
CallResults ==
    { [type |-> "list", progress |-> Absent, total |-> Absent],
      [type |-> "dict", progress |-> Absent, total |-> Absent],
      [type |-> "dict", progress |-> Some(1), total |-> Some(2)],
      [type |-> "dict", progress |-> Some(1), total |-> Some(0)],
      [type |-> "dict", progress |-> Some(1), total |-> Absent] }
NoCallResult == [type |-> "list", progress |-> Absent, total |-> Absent]

\* how a registry method ended: it returned the list tools (fetch_tools), the
\* string text + result or text + err (execute_tool), or raised err
RNone == [kind |-> "none", tools |-> << >>, text |-> "", result |-> NoCallResult, err |-> ""]
RTools(ts) == [RNone EXCEPT !.kind = "return", !.tools = ts]
RSuccess(r) == [RNone EXCEPT !.kind = "return", !.text = "Tool execution result: ", !.result = r]
RError(e) == [RNone EXCEPT !.kind = "return", !.text = "Error executing tool: ", !.err = e]
RRaise(e) == [RNone EXCEPT !.kind = "raise", !.err = e]

\* a dict as the sequence of its items in insertion order
Keys(d) == { d[i].key : i \in 1 .. Len(d) }
ItemSet(d, k, v) ==
    IF k \in Keys(d)
    THEN [i \in 1 .. Len(d) |-> IF d[i].key = k THEN [key |-> k, value |-> v] ELSE d[i]]
    ELSE Append(d, [key |-> k, value |-> v])

Called(server, method, raised) == [server |-> server, method |-> method, raised |-> raised]

RegistryInit ==
    /\ _tools = << >>
    /\ rpc = "idle"
    /\ rop = "none"
    /\ tool_name = ""
    /\ idx = 1
    /\ all_tools = << >>
    /\ rresult = RNone
    /\ calls = << >>
    /\ fetched = << >>
    /\ tools_before = << >>
    /\ nrcalls = 0

Init ==
    /\ TransportInit
    /\ RegistryInit

vars == << sseVars, callerVars >>

Next ==
    \/ Listener
    \/ SseCaller
    \/ BeginOp
    \/ HttpPost
    \/ HttpReturn

Spec == Init /\ [][Next]_vars

\* the state of the transport model, which no registry step changes
transportVars == << sseVars, cpc, op, phase, data, rets, outcome, ncalls, post_url, issued,
                    httpVars, transport, secondVars >>

\* A registry method is called: the part common to the three.
Begin(method) ==
    /\ rpc = "idle"
    /\ nrcalls < MaxRegistryCalls
    /\ nrcalls' = nrcalls + 1
    /\ rop' = method
    /\ idx' = 1
    /\ all_tools' = << >>
    /\ rresult' = RNone
    /\ calls' = << >>
    /\ fetched' = << >>
    /\ tools_before' = _tools
    /\ UNCHANGED _tools
    /\ UNCHANGED transportVars

\* what client.list_tools() does: it raises, or returns a catalog
ListOutcomes == [raised : { TRUE }, value : { << >> }]
                \cup [raised : { FALSE }, value : Catalogs]

\* what client.call_tool(tool_name, tool_args) does
CallOutcomes == [raised : { TRUE }, value : { NoCallResult }]
                \cup [raised : { FALSE }, value : CallResults]

(***************************************************************************)
(* McpClients.fetch_tools.                                                 *)
(*   fetch   at the head of the loop over self._clients   (line 360)       *)
(***************************************************************************)
FetchToolsBegin ==
    /\ Begin("fetch_tools")
    /\ rpc' = "fetch"
    /\ UNCHANGED tool_name

CacheStore_FirstKey(d, server_name, tools) == ItemSet(d, 1, tools)

\* line 363
CacheStore(d, server_name, tools) == ItemSet(d, server_name, tools)

\* lines 361-363 for the next client, and line 366 when its list_tools raises
FetchNext ==
    /\ rpc = "fetch"
    /\ idx <= NServers
    /\ \E o \in ListOutcomes :
         /\ calls' = Append(calls, Called(idx, "list_tools", o.raised))
         /\ IF o.raised
            THEN /\ rresult' = RRaise("RuntimeError: Error fetching tools")
                 /\ rpc' = "idle"
                 /\ UNCHANGED << _tools, all_tools, idx, fetched >>
            ELSE /\ all_tools' = all_tools \o o.value
                 /\ fetched' = Append(fetched, o.value)
                 /\ _tools' = CacheStore(_tools, idx, o.value)
                 /\ idx' = idx + 1
                 /\ UNCHANGED << rresult, rpc >>
    /\ UNCHANGED << rop, tool_name, tools_before, nrcalls >>
    /\ UNCHANGED transportVars

\* line 364; execute_tool drops the list returned (line 370)
FetchReturn ==
    /\ rpc = "fetch"
    /\ idx > NServers
    /\ IF rop = "fetch_tools"
       THEN /\ rresult' = RTools(all_tools)
            /\ rpc' = "idle"
       ELSE /\ rpc' = "route"
            /\ UNCHANGED rresult
    /\ UNCHANGED << _tools, rop, tool_name, idx, all_tools, calls, fetched, tools_before, nrcalls >>
    /\ UNCHANGED transportVars

(***************************************************************************)
(* McpClients.execute_tool.                                                *)
(*   route   the cache is filled: lines 371-393                            *)
(***************************************************************************)
\* lines 369-370
ExecuteToolBegin ==
    /\ Begin("execute_tool")
    /\ tool_name' \in ToolNames
    /\ rpc' = IF _tools = << >> THEN "fetch" ELSE "route"

RECURSIVE RouteCatalog_FirstWins(_, _, _)
RouteCatalog_FirstWins(server_name, tools, tool_clients) ==
    IF tools = << >> THEN [keyerror |-> FALSE, map |-> tool_clients]
    ELSE IF Head(tools).name = NoKey THEN [keyerror |-> TRUE, map |-> tool_clients]
    ELSE RouteCatalog_FirstWins(server_name, Tail(tools),
                                IF Head(tools).name \in DOMAIN tool_clients THEN tool_clients
                                ELSE DictSet(tool_clients, Head(tools).name, server_name))

\* lines 373-375 for one server's catalog: tool_clients after it, or the
\* KeyError of a descriptor without "name"
RECURSIVE RouteCatalog(_, _, _)
RouteCatalog(server_name, tools, tool_clients) ==
    IF tools = << >> THEN [keyerror |-> FALSE, map |-> tool_clients]
    ELSE IF Head(tools).name = NoKey THEN [keyerror |-> TRUE, map |-> tool_clients]
    ELSE RouteCatalog(server_name, Tail(tools),
                      DictSet(tool_clients, Head(tools).name, server_name))

\* lines 371-375: the routing index over the cached catalogs, in the
\* iteration order of the cache
RECURSIVE RouteFrom(_, _, _)
RouteFrom(d, i, tool_clients) ==
    IF i > Len(d) THEN [keyerror |-> FALSE, map |-> tool_clients]
    ELSE LET r == RouteCatalog(d[i].key, d[i].value, tool_clients) IN
         IF r.keyerror THEN r ELSE RouteFrom(d, i + 1, r.map)

ToolClients(d) == RouteFrom(d, 1, << >>)

\* lines 381-389: the string execute_tool returns for what call_tool returned
Formatted(result) ==
    IF result.type = "dict" /\ result.progress /= Absent
    THEN IF result.total = Absent THEN RError("KeyError: 'total'")
         ELSE IF Get(result.total) = 0 THEN RError("ZeroDivisionError")
         ELSE RSuccess(result)
    ELSE RSuccess(result)

ExecuteRoute ==
    /\ rpc = "route"
    /\ LET r == ToolClients(_tools) IN
       IF r.keyerror
       THEN /\ rresult' = RRaise("KeyError: 'name'")
            /\ UNCHANGED calls
       ELSE IF tool_name \notin DOMAIN r.map
       THEN /\ rresult' = RError("there is not a tool named")
            /\ UNCHANGED calls
       ELSE \E o \in CallOutcomes :
              /\ calls' = Append(calls, Called(r.map[tool_name], "call_tool", o.raised))
              /\ rresult' = IF o.raised THEN RError("MCP Server tools/call error")
                            ELSE Formatted(o.value)
    /\ rpc' = "idle"
    /\ UNCHANGED << _tools, rop, tool_name, idx, all_tools, fetched, tools_before, nrcalls >>
    /\ UNCHANGED transportVars

(***************************************************************************)
(* McpClients.close.                                                       *)
(*   close   at the head of the loop over self._clients   (line 396)       *)
(***************************************************************************)
CloseBegin ==
    /\ Begin("close")
    /\ rpc' = "close"
    /\ UNCHANGED tool_name

Caught_None(raised) == ~raised

\* lines 397-400: whether the loop goes on after client.close(), that is,
\* the exception, if any, was caught
Caught(raised) == TRUE

CloseNext ==
    /\ rpc = "close"
    /\ idx <= NServers
    /\ \E raised \in BOOLEAN :
         /\ calls' = Append(calls, Called(idx, "close", raised))
         /\ IF Caught(raised)
            THEN /\ idx' = idx + 1
                 /\ UNCHANGED << rresult, rpc >>
            ELSE /\ rresult' = RRaise("MCP Server connection close failed")
                 /\ rpc' = "idle"
                 /\ UNCHANGED idx
    /\ UNCHANGED << _tools, rop, tool_name, all_tools, fetched, tools_before, nrcalls >>
    /\ UNCHANGED transportVars

CloseReturn ==
    /\ rpc = "close"
    /\ idx > NServers
    /\ rresult' = RTools(<< >>)
    /\ rpc' = "idle"
    /\ UNCHANGED << _tools, rop, tool_name, idx, all_tools, calls, fetched, tools_before, nrcalls >>
    /\ UNCHANGED transportVars

\* the registry is constructed; its transports are event-stream ones or
\* streamable ones alike
InitRegistry ==
    /\ Init
    /\ transport = "sse"

NextRegistry ==
    \/ FetchToolsBegin
    \/ FetchNext
    \/ FetchReturn
    \/ ExecuteToolBegin
    \/ ExecuteRoute
    \/ CloseBegin
    \/ CloseNext
    \/ CloseReturn

SpecRegistry == InitRegistry /\ [][NextRegistry]_vars

(***************************************************************************)
(* One event-stream transport and its single caller thread, with a server  *)
(* that answers requests: an id is a uuid4 drawn by the client, so a       *)
(* "message" event can carry the id of a request only once that request    *)
(* has been POSTed.  Both threads are scheduled fairly; what the server    *)
(* sends, and whether the caller starts an operation or closes, is not.    *)
(***************************************************************************)
KnownEvents ==
    { e \in StreamEvents :
        (e.event = "message" /\ e.data.wf /\ e.data.doc.id /= Absent)
          => \E i \in 1 .. Len(issued) : issued[i] = Get(e.data.doc.id) }

ListenKnownEvent == ListenEventFrom(KnownEvents)

\* the listener's steps that wait for nothing outside the process
ListenerRuns ==
    \/ ListenConnected
    \/ ListenOriginCheck
    \/ ListenSignal
    \/ ListenErrorEvent
    \/ ListenErrorConnected

\* the caller's steps inside __init__ and send_message
CallerRuns ==
    \/ ConnectStart
    \/ ConnectCheckError
    \/ ConnectWait
    \/ ConnectAlive
    \/ SseSendCheck
    \/ SseSendPost
    \/ SseWait
    \/ SseClear
    \/ SseLookup
    \/ SsePop
    \/ SseJoin

InitWait ==
    /\ Init
    /\ transport = "sse"

NextWait ==
    \/ ListenOpen
    \/ ListenKnownEvent
    \/ ListenEof
    \/ ListenReadError
    \/ ListenerRuns
    \/ CallerRuns
    \/ BeginOp
    \/ SseClose

SpecWait ==
    /\ InitWait
    /\ [][NextWait]_vars
    /\ WF_vars(ListenerRuns)
    /\ WF_vars(CallerRuns)

(***************************************************************************)
(* Two caller threads on one event-stream transport: the thread that       *)
(* constructed it, as above, which here starts one operation, and a second *)
(* thread that calls list_tools once, its request id being another uuid4   *)
(* (SecondId).  The positions of the second thread in send_message are     *)
(* those of the first.                                                     *)
(***************************************************************************)
SecondId == MaxCalls + 1

\* tools_data of the second thread's list_tools
SecondRequest == Request(Some(SecondId), Method("list_tools"))

\* what the server may send: as above, and responses to the second request
\* once it has been POSTed
TwoEvents ==
    KnownEvents
    \cup { [event |-> "message", ref |-> CHOOSE r \in EndpointData : TRUE,
            data |-> Payload(TRUE, Envelope(Some(SecondId), b[1], b[2]))] :
            b \in { c \in StreamBodies : \E i \in 1 .. Len(issued) : issued[i] = SecondId } }

ListenTwoEvent == ListenEventFrom(TwoEvents)

\* what no step of the second thread changes
firstVars == << cpc, op, phase, data, rets, outcome, ncalls, httpVars, transport, regVars >>

\* the second thread calls list_tools() on the constructed transport
SecondBegin ==
    /\ Constructed
    /\ cpc2 = "idle"
    /\ cpc2' = "send"
    /\ UNCHANGED << outcome2, post_url, issued, firstVars >>
    /\ UNCHANGED sseVars

\* the second thread's list_tools ends as send_message did
SecondComplete(sres) ==
    /\ cpc2' = "done"
    /\ outcome2' = AfterSend("list_tools", 1, sres).outcome

\* lines 108-112
SecondSendCheck ==
    /\ cpc2 = "send"
    /\ IF endpoint_url = NoUrl
       THEN SecondComplete(Raised(IF _thread_exception /= None THEN "ConnectionError"
                                                              ELSE "RuntimeError"))
       ELSE /\ cpc2' = "s_post"
            /\ UNCHANGED outcome2
    /\ UNCHANGED << post_url, issued, firstVars >>
    /\ UNCHANGED sseVars

\* lines 114-125
SecondSendPost ==
    /\ cpc2 = "s_post"
    /\ post_url' = endpoint_url
    /\ issued' = Issue(issued, SecondRequest)
    /\ \/ SecondComplete(Raised("HTTPStatusError"))
       \/ /\ cpc2' = "s_wait"
          /\ UNCHANGED outcome2
    /\ UNCHANGED firstVars
    /\ UNCHANGED sseVars

\* line 128
SecondWait ==
    /\ cpc2 = "s_wait"
    /\ Wait(response_ready)
    /\ cpc2' = "s_clear"
    /\ UNCHANGED << outcome2, post_url, issued, firstVars >>
    /\ UNCHANGED sseVars

\* line 129
SecondClear ==
    /\ cpc2 = "s_clear"
    /\ response_ready' = FALSE
    /\ cpc2' = "s_in"
    /\ UNCHANGED << outcome2, post_url, issued, firstVars >>
    /\ UNCHANGED << endpoint_url, message_dict, should_stop, _connected,
                    _error_event, _thread_exception, lpc, nev, first_endpoint >>

\* line 130
SecondLookup ==
    /\ cpc2 = "s_in"
    /\ cpc2' = IF InTable(message_dict, SecondId) THEN "s_pop" ELSE "s_wait"
    /\ UNCHANGED << outcome2, post_url, issued, firstVars >>
    /\ UNCHANGED sseVars

\* lines 132-134
SecondPop ==
    /\ cpc2 = "s_pop"
    /\ message_dict' = PopTable(message_dict, SecondId)
    /\ SecondComplete(Returned(PopValue(message_dict, SecondId)))
    /\ UNCHANGED << post_url, issued, firstVars >>
    /\ UNCHANGED << endpoint_url, response_ready, should_stop, _connected,
                    _error_event, _thread_exception, lpc, nev, first_endpoint >>

\* the first thread starts its one operation, which the second overlaps
FirstBegin ==
    /\ ncalls = 0
    /\ BeginOp

SecondCaller ==
    \/ SecondBegin
    \/ SecondSendCheck
    \/ SecondSendPost
    \/ SecondWait
    \/ SecondClear
    \/ SecondLookup
    \/ SecondPop

NextTwo ==
    \/ ListenOpen
    \/ ListenTwoEvent
    \/ ListenEof
    \/ ListenReadError
    \/ ListenerRuns
    \/ CallerRuns
    \/ FirstBegin
    \/ SseClose
    \/ SecondCaller

SpecTwo == InitWait /\ [][NextTwo]_vars

(***************************************************************************)
(* McpClients.__init__ over the configuration's servers 1 .. NServers.     *)
(* What init_client (the transport's constructor) and initialize do for a  *)
(* server is drawn at the call: it returns or raises.                      *)
(*   build       the dict comprehension over the servers   (lines 329-332) *)
(*   initialize  the loop over self._clients.values()      (lines 333-334) *)
(*   raised      __init__ raised: there is no McpClients object            *)
(*   idle        __init__ returned; no registry method in progress         *)
(***************************************************************************)
Propagates_Never(raised) == FALSE

\* lines 329-334 have no try: an exception raised by init_client or by
\* initialize leaves __init__
Propagates(raised) == raised

OnFailure_CloseBuilt(history) ==
    history \o [i \in 1 .. Len(SelectSeq(history, LAMBDA c : c.method = "init_client"
                                                             /\ ~c.raised))
                  |-> Called(i, "close", FALSE)]

\* the transport calls __init__ has made when it raises: those made before
\* the failure, and no other (no except or finally clause closes anything)
OnFailure(history) == history

\* line 330 for the next server
BuildNext ==
    /\ rpc = "build"
    /\ idx <= NServers
    /\ \E raised \in BOOLEAN :
         IF Propagates(raised)
         THEN /\ calls' = OnFailure(Append(calls, Called(idx, "init_client", raised)))
              /\ rresult' = RRaise("init_client")
              /\ rpc' = "raised"
              /\ UNCHANGED idx
         ELSE /\ calls' = Append(calls, Called(idx, "init_client", raised))
              /\ idx' = idx + 1
              /\ UNCHANGED << rresult, rpc >>
    /\ UNCHANGED << _tools, rop, tool_name, all_tools, fetched, tools_before, nrcalls >>
    /\ UNCHANGED transportVars

\* self._clients is assigned: line 329
BuildDone ==
    /\ rpc = "build"
    /\ idx > NServers
    /\ rpc' = "initialize"
    /\ idx' = 1
    /\ UNCHANGED << _tools, rop, tool_name, all_tools, rresult, calls, fetched, tools_before,
                    nrcalls >>
    /\ UNCHANGED transportVars

\* line 334 for the next transport
InitializeNext ==
    /\ rpc = "initialize"
    /\ idx <= NServers
    /\ \E raised \in BOOLEAN :
         IF Propagates(raised)
         THEN /\ calls' = OnFailure(Append(calls, Called(idx, "initialize", raised)))
              /\ rresult' = RRaise("initialize")
              /\ rpc' = "raised"
              /\ UNCHANGED idx
         ELSE /\ calls' = Append(calls, Called(idx, "initialize", raised))
              /\ idx' = idx + 1
              /\ UNCHANGED << rresult, rpc >>
    /\ UNCHANGED << _tools, rop, tool_name, all_tools, fetched, tools_before, nrcalls >>
    /\ UNCHANGED transportVars

\* line 335, and __init__ returns
InitializeDone ==
    /\ rpc = "initialize"
    /\ idx > NServers
    /\ _tools' = << >>
    /\ rresult' = RTools(<< >>)
    /\ rpc' = "idle"
    /\ UNCHANGED << rop, tool_name, idx, all_tools, calls, fetched, tools_before, nrcalls >>
    /\ UNCHANGED transportVars

\* McpClients(servers_config) is called
InitConstruct ==
    /\ TransportInit
    /\ transport = "sse"
    /\ _tools = << >>
    /\ rpc = "build"
    /\ rop = "__init__"
    /\ tool_name = ""
    /\ idx = 1
    /\ all_tools = << >>
    /\ rresult = RNone
    /\ calls = << >>
    /\ fetched = << >>
    /\ tools_before = << >>
    /\ nrcalls = 0

\* the constructor, and then the methods of the registry it produced
NextConstruct ==
    \/ BuildNext
    \/ BuildDone
    \/ InitializeNext
    \/ InitializeDone
    \/ NextRegistry

SpecConstruct == InitConstruct /\ [][NextConstruct]_vars

(***************************************************************************)
(* Properties of one transport (Spec).                                     *)
(***************************************************************************)
\* C2: when the first "endpoint" event resolves to a URL whose scheme or host
\* differs from the connection URL's, construction does not return normally.
C2_CrossOriginFailsConstruction ==
    (first_endpoint /= NoUrl /\ OriginMismatch(ConnUrl, first_endpoint)) => ~Constructed

\* C3: construction returns normally only when an endpoint event was
\* received, so that the endpoint URL is known; a listener that raised or
\* ended before any endpoint event makes the constructor raise.
C3_ConstructedOnlyWithEndpoint ==
    Constructed => endpoint_url /= NoUrl

\* C4: with one caller thread, the step on which send_message returns for
\* the request id X returns a message whose id is X, removes the entry of X
\* from the pending-response table and leaves every other entry as it was.
C4_ReturnsOwnResponse ==
    [][ (cpc = "s_pop" /\ cpc' /= "s_pop") =>
          LET X == Get(data.id) IN
          /\ rets' /= rets
          /\ rets'[Len(rets')] /= Absent
          /\ Get(rets'[Len(rets')]).id = Some(X)
          /\ X \notin DOMAIN message_dict'
          /\ \A k \in DOMAIN message_dict \ {X} :
               k \in DOMAIN message_dict' /\ message_dict'[k] = message_dict[k]
          /\ DOMAIN message_dict' \subseteq DOMAIN message_dict ]_vars

\* C4 witness: list_tools has returned the response of its own id while the
\* response for another id, delivered as well, is still in the table.
C4_Witness ==
    /\ transport = "sse"
    /\ cpc = "idle"
    /\ op = "list_tools"
    /\ Len(rets) = 1
    /\ rets[1] /= Absent
    /\ Get(rets[1]).id = data.id
    /\ \E y \in DOMAIN message_dict : Some(y) /= data.id

\* C8 as claimed: once the first response carried a session identifier, every
\* later request carries that identifier, whatever later responses carry.
C8_FirstSessionIdSticks ==
    [][ (cpc = "send" /\ cpc' = "h_ret" /\ first_sid /= Absent
         /\ Get(first_sid).is_success /\ Get(first_sid).sid \notin { Absent, Some("") })
        => sent_sid' = Get(first_sid).sid ]_vars

\* C8, amended: every request carries the session identifier of the latest
\* successful response that had the mcp-session-id header, and no session
\* header when there was none yet or that identifier is the empty string.
C8_LatestSessionIdSent ==
    [][ (cpc = "send" /\ cpc' = "h_ret")
        => sent_sid' = (IF last_sid \notin { Absent, Some("") } THEN last_sid ELSE Absent) ]_vars

\* C8 witness: a request went out with the identifier of a later response,
\* which is not the one the first response carried.
C8_Witness ==
    /\ cpc = "h_ret"
    /\ first_sid /= Absent
    /\ Get(first_sid).is_success
    /\ Get(first_sid).sid = Some("a")
    /\ sent_sid = Some("b")

\* send_message has handled a successful, non-empty response whose
\* content-type indicates an event stream
EventStreamBody ==
    /\ cpc = "h_ret"
    /\ http_response.is_success
    /\ http_response.content.kind /= "empty"
    /\ IsEventStream(http_response.content_type)

\* C9: for a streamable response typed as an event stream, send_message
\* raises when any framed event is not named "message"; when all are
\* "message" events with JSON payloads it returns the payload of the last.
C9_LastMessageEventWins ==
    EventStreamBody =>
      LET es == http_response.content.events IN
      /\ (\E i \in 1 .. Len(es) : es[i].event /= "message") => http_sres.raised
      /\ (Len(es) > 0 /\ \A i \in 1 .. Len(es) : es[i].event = "message" /\ es[i].data.wf)
           => http_sres = Returned(Some(es[Len(es)].data.doc))

\* C9 witness: send_message returns what the last of two "message" events
\* with different payloads carried.
C9_Witness ==
    /\ EventStreamBody
    /\ Len(http_response.content.events) = 2
    /\ http_response.content.events[1] =
         [event |-> "message", data |-> Payload(TRUE, Envelope(Absent, TRUE, NoResult))]
    /\ http_response.content.events[2] =
         [event |-> "message", data |-> Payload(TRUE, Envelope(Absent, FALSE, FullResult))]
    /\ http_sres = Returned(Some(Envelope(Absent, FALSE, FullResult)))

\* the operation has ended and every send_message of it returned a dict
Responded ==
    /\ cpc = "idle"
    /\ op \in Operations
    /\ outcome.kind /= "none"
    /\ Len(rets) > 0
    /\ \A i \in 1 .. Len(rets) : rets[i] /= Absent

\* C10: for both transports, an operation raises when a decoded response to
\* one of its requests has the error field; when none has, initialize
\* returns (its request and its notification both answered), list_tools
\* returns the result's tools array and call_tool its content array, empty
\* when absent.
C10_ErrorFieldRaises ==
    Responded =>
      /\ (\E i \in 1 .. Len(rets) : Get(rets[i]).error) => outcome.kind = "raise"
      /\ (\A i \in 1 .. Len(rets) : ~Get(rets[i]).error) =>
           LET result == Get(rets[Len(rets)]).result IN
           CASE op = "initialize" -> Len(rets) = 2 => outcome = Return(<< >>)
             [] op = "list_tools" ->
                  outcome = Return(IF result.tools = Absent THEN << >> ELSE Get(result.tools))
             [] op = "call_tool" ->
                  outcome = Return(IF result.content = Absent THEN << >>
                                   ELSE Get(result.content))

\* C10 witness: on the event-stream transport call_tool raised for a
\* response that carries the error field.
C10_Witness ==
    /\ transport = "sse"
    /\ Responded
    /\ op = "call_tool"
    /\ Get(rets[1]).error
    /\ outcome = Raise("MCP Server tools/call error")

\* C14: for both transport kinds the requests a transport has POSTed carry
\* pairwise different ids, over any sequence of operations, and the
\* initialized notification carries no id.
C14_RequestIdsUnique ==
    /\ \A i, j \in 1 .. Len(issued) : i /= j => issued[i] /= issued[j]
    /\ phase = 2 => data.id = Absent

\* C18: every POST of the event-stream transport's send_message goes to a
\* URL whose scheme and host are the connection URL's, whatever events the
\* stream carried before, later "endpoint" events included.
C18_PostsSameOrigin ==
    post_url /= NoUrl => ~OriginMismatch(ConnUrl, post_url)

\* send_message has handled a successful response whose content-type is
\* neither an event stream nor JSON: text/plain, or none, read as "None"
OtherContentType ==
    /\ cpc = "h_ret"
    /\ http_response.is_success
    /\ http_response.content_type \in { "text/plain", "None" }

\* C13 as claimed: every successful streamable response whose content-type is
\* neither an event stream nor JSON makes send_message raise.
C13_OtherContentTypeRaises ==
    OtherContentType => http_sres.raised

\* C13, amended: such a response makes send_message raise the unsupported
\* content-type error when its body is not empty; when its body is empty
\* send_message returns the empty dict, whatever the content-type.
C13_OtherContentTypeRaisesUnlessEmpty ==
    OtherContentType =>
      IF http_response.content.kind = "empty"
      THEN http_sres = Returned(Some(EmptyDict))
      ELSE http_sres = Raised("Unsupported Content-Type")

\* C13 witness: a successful text/plain response with a body made
\* send_message raise.
C13_Witness ==
    /\ OtherContentType
    /\ http_response.content_type = "text/plain"
    /\ http_response.content.kind = "text"
    /\ http_response.content.json.wf
    /\ http_sres = Raised("Unsupported Content-Type")

(***************************************************************************)
(* Properties of the wait for a response (SpecWait).                       *)
(***************************************************************************)
\* send_message is in its loop of lines 127-134 for the request id X
WaitingFor(X) ==
    /\ cpc \in { "s_wait", "s_clear", "s_in", "s_pop" }
    /\ data.id = Some(X)

\* C17: with one caller thread, once the response with id X is in the
\* table while send_message waits for X, that send_message returns it,
\* however the listener's store and signal interleave with the caller's
\* wait, clear and lookup.
C17_StoredResponseReturned ==
    \A X \in Ids :
      (WaitingFor(X) /\ InTable(message_dict, X))
        ~> (~WaitingFor(X) /\ rets /= << >> /\ rets[1] /= Absent /\ Get(rets[1]).id = Some(X))

\* C17 witness: send_message has returned the response of the second
\* request, after a response with the first request's id had been stored
\* and signalled as well.
C17_Witness ==
    /\ cpc = "idle"
    /\ issued = << 1, 2 >>
    /\ rets /= << >>
    /\ rets[1] /= Absent
    /\ Get(rets[1]).id = Some(2)
    /\ 1 \in DOMAIN message_dict

\* the listener thread has ended while send_message waits for a response
\* that is not in the table
Orphaned ==
    /\ lpc = "done"
    /\ cpc \in { "s_wait", "s_clear", "s_in" }
    /\ Get(data.id) \notin DOMAIN message_dict

\* C19: once the listener thread has ended while send_message waits for a
\* response that is not in the table, every later step leaves send_message
\* in its loop: it never returns nor raises, whatever exception and error
\* flag the listener recorded.
C19_WaiterOfDeadListenerBlocks ==
    [][Orphaned => Orphaned']_vars

\* C19 witness: the listener ended on a message without id, recorded the
\* exception and set the error flag; the caller waits on a cleared signal.
C19_Witness ==
    /\ Orphaned
    /\ cpc = "s_wait"
    /\ ~response_ready
    /\ _thread_exception = "KeyError"
    /\ _error_event

(***************************************************************************)
(* Properties of two overlapping callers (SpecTwo).                        *)
(***************************************************************************)
\* the first thread's send_message is blocked in wait() on a cleared
\* signal although the response to its request is in the table
FirstLost ==
    /\ cpc = "s_wait"
    /\ ~response_ready
    /\ InTable(message_dict, Get(data.id))

\* the same for the second thread
SecondLost ==
    /\ cpc2 = "s_wait"
    /\ ~response_ready
    /\ InTable(message_dict, SecondId)

\* C15: with two callers on one event-stream transport, a caller whose
\* response is in the table while the signal is cleared (the other caller
\* consumed it) stays blocked in wait() with its response in the table
\* until the listener signals again, and for ever once the listener has
\* ended.
C15_LostWakeBlocks ==
    [][ /\ FirstLost => (FirstLost' \/ response_ready')
        /\ SecondLost => (SecondLost' \/ response_ready')
        /\ (FirstLost /\ lpc = "done") => FirstLost'
        /\ (SecondLost /\ lpc = "done") => SecondLost' ]_vars

\* C15 witness: the listener stored and signalled the first caller's
\* response; the second caller woke, cleared the signal, later got its own
\* response and returned; the listener has ended and the first caller is
\* still blocked with its response in the table.
C15_Witness ==
    /\ FirstLost
    /\ lpc = "done"
    /\ _thread_exception = None
    /\ cpc2 = "done"
    /\ outcome2.kind = "return"

(***************************************************************************)
(* Properties of the registry (SpecRegistry).                              *)
(***************************************************************************)
\* the registry method has ended
Ended(method) == rop = method /\ rpc = "idle"

\* C1: execute_tool never raises: it returns the success string or an
\* error string, whatever the cache holds and the transports do.
C1_ExecuteToolNeverRaises ==
    Ended("execute_tool") =>
      /\ rresult.kind = "return"
      /\ rresult.text \in { "Tool execution result: ", "Error executing tool: " }

\* C5: a fetch_tools in which a list_tools fails raises and leaves the
\* catalog cache as it was before the call.
C5_FailedFetchLeavesCache ==
    (Ended("fetch_tools") /\ rresult.kind = "raise") => _tools = tools_before

RECURSIVE Flatten(_)
Flatten(lists) == IF lists = << >> THEN << >> ELSE Head(lists) \o Flatten(Tail(lists))

\* C6: when every list_tools succeeds, fetch_tools returns the servers'
\* catalogs concatenated in the order of the configuration, and the cache
\* then maps each server to the catalog that server returned in this call.
C6_FetchConcatenatesAndCaches ==
    (Ended("fetch_tools") /\ rresult.kind = "return") =>
      /\ Len(fetched) = NServers
      /\ rresult.tools = Flatten(fetched)
      /\ Len(_tools) = NServers
      /\ \A i \in Servers : _tools[i].key = i /\ _tools[i].value = fetched[i]

\* C6 witness: two servers returned different catalogs, both non-empty,
\* over a cache that an earlier call had filled.
C6_Witness ==
    /\ Ended("fetch_tools")
    /\ rresult.kind = "return"
    /\ tools_before /= << >>
    /\ fetched[1] = << Tool("t1"), Tool("t2") >>
    /\ fetched[2] = << Tool("t1") >>

\* C7: close calls close() on every transport once, in order, also after
\* one of them raised, and returns.
C7_CloseReachesEveryTransport ==
    Ended("close") =>
      /\ rresult.kind = "return"
      /\ Len(calls) = NServers
      /\ \A i \in Servers : calls[i].server = i /\ calls[i].method = "close"

\* C7 witness: close returned although the first transport's close raised.
C7_Witness ==
    /\ Ended("close")
    /\ rresult.kind = "return"
    /\ Len(calls) = NServers
    /\ calls[1].raised

\* the positions, in the iteration order of the cache, of the servers whose
\* cached catalog lists the name
Listers(d, name) ==
    { i \in 1 .. Len(d) : \E j \in 1 .. Len(d[i].value) : d[i].value[j].name = name }

\* the server of the last of them
LastLister(d, name) ==
    d[CHOOSE i \in Listers(d, name) : \A k \in Listers(d, name) : k <= i].key

\* the call_tool calls this registry method made
CallToolCalls == SelectSeq(calls, LAMBDA c : c.method = "call_tool")

\* exactly one call_tool was made, on the last server listing tool_name
CalledLastLister ==
    /\ Len(CallToolCalls) = 1
    /\ CallToolCalls[1].server = LastLister(_tools, tool_name)

C16_ProgressObservabilityOnly ==
    (Ended("execute_tool") /\ Len(CallToolCalls) = 1 /\ ~CallToolCalls[1].raised) =>
      /\ rresult.kind = "return"
      /\ rresult.text = "Tool execution result: "

(***************************************************************************)
(* Properties of the registry's construction (SpecConstruct).              *)
(***************************************************************************)
\* McpClients.__init__ is running or has ended, and no method of the
\* registry has been called yet: calls holds the constructor's calls
Constructing == rop = "__init__"

\* the i-th call of a construction in which nothing fails
ConstructorCall(i) ==
    IF i <= NServers THEN [server |-> i, method |-> "init_client"]
    ELSE [server |-> i - NServers, method |-> "initialize"]

\* C11: the constructor builds the transports of all servers in
\* configuration order, then initializes them one at a time in that order;
\* a call that fails is the last it makes, it then raises, and it returns a
\* registry only after every transport was built and initialized.
C11_ConstructionFailsFast ==
    Constructing =>
      /\ Len(calls) <= 2 * NServers
      /\ \A i \in 1 .. Len(calls) :
           /\ calls[i].server = ConstructorCall(i).server
           /\ calls[i].method = ConstructorCall(i).method
           /\ calls[i].raised => i = Len(calls)
      /\ rpc = "raised" <=> (calls /= << >> /\ calls[Len(calls)].raised)
      /\ rpc = "raised" => (rresult.kind = "raise" /\ nrcalls = 0)
      /\ rpc = "idle" => (Len(calls) = 2 * NServers /\ rresult.kind = "return")

\* C11 witness: every transport was built, the first one's initialize
\* raised and the constructor raised without initializing the second.
C11_Witness ==
    /\ Constructing
    /\ rpc = "raised"
    /\ Len(calls) = NServers + 1
    /\ calls[NServers + 1] = Called(1, "initialize", TRUE)

\* the transports the constructor has built
Built == { c.server : c \in { calls[i] : i \in 1 .. Len(calls) } \cap
                             [server : Servers, method : { "init_client" }, raised : { FALSE }] }

\* the transports close() was called on
Closed == { calls[i].server : i \in { j \in 1 .. Len(calls) : calls[j].method = "close" } }

\* C20: when the constructor raises, close() has been called on none of
\* the transports it built, and no step follows: nothing holds a reference
\* through which they could be closed later.
C20_FailedConstructionClosesNothing ==
    /\ [](rpc = "raised" => Closed = { })
    /\ [][rpc /= "raised"]_vars

\* C20 witness: the constructor built every transport, raised when the
\* last one's initialize failed, and closed none.
C20_Witness ==
    /\ rpc = "raised"
    /\ Built = Servers
    /\ calls[Len(calls)] = Called(NServers, "initialize", TRUE)
    /\ Closed = { }
====
